---------------------------- MODULE Spec2Model ----------------------------
(***************************************************************************)
(* GroundSide.py: the ground-side front end of the FireSide link.          *)
(*                                                                         *)
(* Text is modelled as a sequence of one-character tokens.  The tokens     *)
(* "CR", "LF", "SP" stand for \r, \n and the blank, and "XFF" for a byte   *)
(* that is not valid UTF-8.  The radio has at most one line on its way to  *)
(* the script at a time.                                                   *)
(***************************************************************************)
EXTENDS Naturals, Sequences, FiniteSets

VARIABLES
  pc,               \* position of the script
  caller,           \* who called SendRYLR: "init" (line 154) or "loop" (line 202)
  State,            \* SendRYLR's parameter
  OverrideResponse, \* SendRYLR's local (line 94)
  OTP,              \* SendRYLR's local (lines 104, 117); <<>> while not generated
  entered,          \* what input() returned at lines 110 / 123
  prompted,         \* whether input() of lines 110 / 123 was called in this call
  input_buffer,     \* line 163
  line,             \* line 173: what ParseRYLR returned
  shown,            \* what line 181 printed as the received message
  redraw,           \* what line 184 printed after the prompt
  diag,             \* what line 82 printed after "!!!! Malformed +RCV packet: "
  lastKind,         \* which return of ParseRYLR produced `line`
  lastRaw,          \* the bytes read_until returned for `line`
  tx,               \* bytes written to RYLR by the SendRYLR call in progress
  rx,               \* bytes waiting in the serial input buffer (RYLR.in_waiting)
  wire,             \* bytes the radio module has emitted that have not arrived yet
  tears,            \* how often the line on the wire arrived in pieces
  chanOpen          \* RYLR is open (line 54) and not yet closed (line 233)

vars == <<pc, caller, State, OverrideResponse, OTP, entered, prompted,
          input_buffer, line, shown, redraw, diag, lastKind, lastRaw, tx, rx, wire,
          tears, chanOpen>>

---------------------------------------------------------------------------
(* Bounds of the model *)

\* number of distinct digits choice(digits) draws from (the code has 10)
NumDigits == 2
\* a +RCV line of the radio has 0..MaxCommas commas
MaxCommas == 5
\* how many times one inbound line may be split by the read timeout
MaxTears == 1

---------------------------------------------------------------------------
(* Text helpers *)

IsPrefix(p, s) == Len(p) <= Len(s) /\ SubSeq(s, 1, Len(p)) = p

DecDigits == <<"0", "1", "2", "3", "4", "5", "6", "7", "8", "9">>

RECURSIVE StrOfInt(_)
\* str(n) for n >= 0
StrOfInt(n) ==
  IF n < 10 THEN <<DecDigits[n + 1]>>
  ELSE StrOfInt(n \div 10) \o <<DecDigits[(n % 10) + 1]>>

Whitespace == {"SP", "CR", "LF", "TAB"}

RECURSIVE LStrip(_)
LStrip(s) ==
  IF s # <<>> /\ Head(s) \in Whitespace THEN LStrip(Tail(s)) ELSE s

RECURSIVE RStrip(_)
RStrip(s) ==
  IF s # <<>> /\ s[Len(s)] \in Whitespace
    THEN RStrip(SubSeq(s, 1, Len(s) - 1))
    ELSE s

\* str.strip()
Strip(s) == RStrip(LStrip(s))

\* index of the first occurrence of token c in s, 0 when there is none
IndexOf(s, c) ==
  IF \E i \in 1..Len(s) : s[i] = c
    THEN CHOOSE i \in 1..Len(s) : s[i] = c /\ \A j \in 1..(i - 1) : s[j] # c
    ELSE 0

RECURSIVE Split(_, _, _)
\* str.split(sep, maxsplit=n)
Split(s, sep, n) ==
  LET i == IndexOf(s, sep) IN
  IF n = 0 \/ i = 0 THEN <<s>>
  ELSE <<SubSeq(s, 1, i - 1)>> \o Split(SubSeq(s, i + 1, Len(s)), sep, n - 1)

RECURSIVE Count(_, _)
Count(s, c) ==
  IF s = <<>> THEN 0
  ELSE (IF Head(s) = c THEN 1 ELSE 0) + Count(Tail(s), c)

ValidByte(b) == b # "XFF"

\* the replacement character U+FFFD
Marker == "UFFFD"

\* a decode that puts the replacement character where a byte is invalid
DecodeIgnore_Replace(bytes) ==
  [i \in 1..Len(bytes) |-> IF ValidByte(bytes[i]) THEN bytes[i] ELSE Marker]

\* bytes.decode('utf-8', errors='ignore')
DecodeIgnore(bytes) == SelectSeq(bytes, ValidByte)

\* Serial.read_until(b'\n') with timeout=0.1: up to and including the first LF,
\* or, when the timeout expires first, whatever has arrived
ReadUntil(buf) ==
  LET i == IndexOf(buf, "LF") IN
  IF i = 0 THEN [data |-> buf, rest |-> <<>>]
  ELSE [data |-> SubSeq(buf, 1, i), rest |-> SubSeq(buf, i + 1, Len(buf))]

---------------------------------------------------------------------------
(* Commands *)

SAFE    == <<"S", "A", "F", "E">>
ARM     == <<"A", "R", "M">>
LAUNCH  == <<"L", "A", "U", "N", "C", "H">>
CONVERT == <<"C", "O", "N", "V", "E", "R", "T">>

\* the list of line 97
ValidStates == {SAFE, ARM, LAUNCH, CONVERT}

CRLF == <<"CR", "LF">>
ATSEND == <<"A", "T", "+", "S", "E", "N", "D", "=", "0", ",">>


\* the gated names of lines 102 and 115
GatedStates == {ARM, LAUNCH}

\* range(4) of lines 105 and 118
OtpLen == 4

\* the characters choice(digits) draws from, cut to NumDigits
OtpDigits == {DecDigits[i] : i \in 1..NumDigits}

RECURSIVE SeqsOfLen(_, _)
\* the sequences of length n over the set S
SeqsOfLen(S, n) ==
  IF n = 0 THEN {<<>>}
  ELSE {Append(q, c) : q \in SeqsOfLen(S, n - 1), c \in S}

\* every value ''.join(choice(digits) for i in range(4)) can take
OtpValues == SeqsOfLen(OtpDigits, OtpLen)

---------------------------------------------------------------------------
(* ParseRYLR, lines 63-90 *)

RCV == <<"+", "R", "C", "V", "=">>

\* str('\n'), the blank buffer of lines 66, 83 and 90
Blank == <<"LF">>

\* line 78: parsed.split(',', maxsplit=4)[2]; ok is FALSE where [2] raises IndexError
RcvField(parsed) ==
  LET fields == Split(parsed, ",", 4) IN
  IF Len(fields) >= 3 THEN [ok |-> TRUE, data |-> fields[3]]
  ELSE [ok |-> FALSE, data |-> <<>>]

\* a ParseRYLR whose IndexError is not caught
OnIndexError_Uncaught(parsed) ==
  [kind |-> "Raised", text |-> <<>>, diag |-> <<>>]

\* lines 80-83: except IndexError
OnIndexError(parsed) ==
  [kind |-> "Malformed", text |-> Blank, diag |-> parsed]

\* lines 68-90 on the bytes read_until returned: the returned string (text), the
\* return that produced it (kind) and what line 82 printed (diag)
Classify(data) ==
  LET parsed == Strip(DecodeIgnore(data)) IN
  IF IsPrefix(RCV, parsed)
    THEN LET f == RcvField(parsed) IN
         IF f.ok THEN [kind |-> "Payload", text |-> f.data, diag |-> <<>>]
         ELSE OnIndexError(parsed)
    ELSE IF parsed # <<>>
      THEN [kind |-> "AtResponse", text |-> <<"-", ">", "SP">> \o parsed,
            diag |-> <<>>]
      ELSE [kind |-> "Empty", text |-> Blank, diag |-> <<>>]

\* ParseRYLR() on the input buffer buf: its result and the bytes left in the buffer
ParseRYLR(buf) ==
  IF buf = <<>>
    THEN [kind |-> "Empty", text |-> Blank, diag |-> <<>>,
          raw |-> <<>>, rest |-> <<>>]
    ELSE LET r == ReadUntil(buf)
             c == Classify(r.data)
         IN [kind |-> c.kind, text |-> c.text, diag |-> c.diag,
             raw |-> r.data, rest |-> r.rest]

\* line 174: if line and line.strip()
Displayable(text) == text # <<>> /\ Strip(text) # <<>>

---------------------------------------------------------------------------
(* The operator and the radio: the inputs of the script *)

\* what the operator types as a command, at line 154 and key by key at line 191
OperatorLines ==
  {SAFE, ARM, LAUNCH, CONVERT, <<"a", "r", "m">>, ARM \o <<"SP">>}

DESTROY == <<"D", "E", "S", "T", "R", "O", "Y">>

\* what the operator answers at line 154
InitialLines == OperatorLines \cup {<<>>, DESTROY}

\* the literal keys the operator presses
KeyChars == UNION {{w[i] : i \in 1..Len(w)} : w \in OperatorLines}

\* what the operator types at the OTP prompt of lines 110 / 123
ReenterInputs ==
  {<<>>, <<"0", "0", "0", "0">>, <<"0", "0", "0", "1">>, <<"1", "1", "1", "1">>,
   <<"0", "0", "0">>, <<"0", "0", "0", "0", "SP">>, <<"0", "0", "0", "0", "0">>}

\* the fields of the radio's +RCV=<Address>,<Length>,<Data>,<RSSI>,<SNR> line
\* (line 75), and what a line with more fields carries after them
RcvFieldAt(i) ==
  CASE i = 1 -> <<"0">>
    [] i = 2 -> <<"3">>
    [] i = 3 -> ARM
    [] i = 4 -> <<"5">>
    [] i = 5 -> <<"9">>
    [] OTHER -> <<"7">>

RECURSIVE JoinFields(_)
\* the first n fields, comma separated
JoinFields(n) ==
  IF n = 1 THEN RcvFieldAt(1)
  ELSE JoinFields(n - 1) \o <<",">> \o RcvFieldAt(n)

\* a +RCV line with k commas
RcvLine(k) == RCV \o JoinFields(k + 1) \o CRLF

\* the AT responses of line 85, a blank line, and a response with a corrupted byte
AtLines ==
  {<<"+", "O", "K">> \o CRLF,
   <<"+", "E", "R", "R">> \o CRLF,
   CRLF,
   <<"+", "XFF", "O", "K">> \o CRLF}

\* where the read timeout may cut a line: inside its first field, inside its payload
TearOffsets == {3, 11}

\* the complete +RCV line with a corrupted byte inside its payload
CorruptRcvLine ==
  RCV \o <<"0", ",", "3", ",", "A", "XFF", "R", "M", ",", "5", ",", "9">> \o CRLF

\* the lines the radio module emits, as they reach the port
RadioLines == {RcvLine(k) : k \in 0..MaxCommas} \cup AtLines \cup {CorruptRcvLine}

---------------------------------------------------------------------------
(* The script *)

SendPcs ==
  {"send_check", "send_gate", "send_input", "send_write1", "send_write2",
   "send_write3", "send_ret"}

LoopPcs == {"loop_rx", "loop_kbd"}

Running == pc \in {"init_prompt", "handshake"} \cup SendPcs \cup LoopPcs

\* inside the try of lines 169-229
InTry == pc \in LoopPcs \/ (pc \in SendPcs /\ caller = "loop")

\* the script is inside input() (lines 110, 123, 154): only the operator's line,
\* or Ctrl+C, lets it go on
WaitsForOperator == pc \in {"init_prompt", "send_input"}

\* the SessionState of the specification, read off the script's position
SessionState ==
  IF ~chanOpen THEN "Closed"
  ELSE IF InTry THEN "Active"
  ELSE "Handshaking"

Init ==
  /\ pc = "init_prompt"
  /\ caller = "init"
  /\ State = <<>>
  /\ OverrideResponse = FALSE
  /\ OTP = <<>>
  /\ entered = <<>>
  /\ prompted = FALSE
  /\ input_buffer = <<>>
  /\ line = <<>>
  /\ shown = <<>>
  /\ redraw = <<>>
  /\ diag = <<>>
  /\ lastKind = "none"
  /\ lastRaw = <<>>
  /\ tx = <<>>
  /\ rx = <<>>
  /\ wire = <<>>
  /\ tears = 0
  /\ chanOpen = TRUE

loopLocals == <<line, shown, redraw, diag, lastKind, lastRaw>>
sendLocals == <<State, OverrideResponse, OTP, entered, prompted>>
channel == <<rx, wire, tears>>

\* entering SendRYLR(s): fresh locals
Call(s, from) ==
  /\ pc' = "send_check"
  /\ caller' = from
  /\ State' = s
  /\ OverrideResponse' = FALSE
  /\ OTP' = <<>>
  /\ entered' = <<>>
  /\ prompted' = FALSE
  /\ tx' = <<>>

\* line 154: SendRYLR(input('Choose Initial State (SAFE || CONVERT): '))
InitialInput(s) ==
  /\ pc = "init_prompt"
  /\ Call(s, "init")
  /\ UNCHANGED <<input_buffer, loopLocals, channel, chanOpen>>

\* a validation that trims the name before looking it up
InvalidCommand_Trimmed(s) == Strip(s) \notin ValidStates

\* line 97: State not in ['SAFE', 'ARM', 'LAUNCH', 'CONVERT']
InvalidCommand(s) == s \notin ValidStates

\* a SendRYLR that writes the frame's first bytes before it looks at the name
SendValidate_WritesHeader ==
  /\ pc = "send_check"
  /\ OverrideResponse' = InvalidCommand(State)
  /\ tx' = tx \o ATSEND
  /\ pc' = "send_gate"
  /\ UNCHANGED <<caller, State, OTP, entered, prompted, input_buffer, loopLocals,
                 channel, chanOpen>>

\* lines 94-99
SendValidate ==
  /\ pc = "send_check"
  /\ OverrideResponse' = InvalidCommand(State)
  /\ pc' = "send_gate"
  /\ UNCHANGED <<caller, State, OTP, entered, prompted, input_buffer, loopLocals,
                 tx, channel, chanOpen>>

\* a gate that asks for the OTP on every state but SAFE
NeedsOtp_AllButSafe(s) == s \in ValidStates \ {SAFE}

\* lines 102 and 115: State == 'ARM', State == 'LAUNCH'
NeedsOtp(s) == s \in GatedStates

\* lines 104-110 and 117-123, up to the call of input()
SendGenerateOtp ==
  /\ pc = "send_gate"
  /\ NeedsOtp(State)
  /\ \E o \in OtpValues : OTP' = o
  /\ prompted' = TRUE
  /\ pc' = "send_input"
  /\ UNCHANGED <<caller, State, OverrideResponse, entered, input_buffer,
                 loopLocals, tx, channel, chanOpen>>

\* neither if of lines 102 and 115 is taken
SendSkipGate ==
  /\ pc = "send_gate"
  /\ ~NeedsOtp(State)
  /\ pc' = "send_write1"
  /\ UNCHANGED <<caller, sendLocals, input_buffer, loopLocals, tx, channel,
                 chanOpen>>

\* a comparison that accepts any beginning of the OTP
OtpRejected_Prefix(e, otp) == ~IsPrefix(e, otp)

\* lines 110 and 123: input(...) != OTP
OtpRejected(e, otp) == e # otp

\* a gate that asks again after a wrong re-entry
SendReenter_Retry(e) ==
  /\ pc = "send_input"
  /\ entered' = e
  /\ OverrideResponse' = OverrideResponse
  /\ pc' = (IF OtpRejected(e, OTP) THEN "send_input" ELSE "send_write1")
  /\ UNCHANGED <<caller, State, OTP, prompted, input_buffer, loopLocals, tx,
                 channel, chanOpen>>

\* lines 110-112 and 123-125: input() returns e
SendReenter(e) ==
  /\ pc = "send_input"
  /\ entered' = e
  /\ OverrideResponse' = (OverrideResponse \/ OtpRejected(e, OTP))
  /\ pc' = "send_write1"
  /\ UNCHANGED <<caller, State, OTP, prompted, input_buffer, loopLocals, tx,
                 channel, chanOpen>>

\* line 129
SendWriteHeader ==
  /\ pc = "send_write1"
  /\ tx' = tx \o ATSEND
  /\ pc' = "send_write2"
  /\ UNCHANGED <<caller, sendLocals, input_buffer, loopLocals, channel, chanOpen>>

\* line 138: '4,SAFE\r\n'
SafeTail == <<"4", ",">> \o SAFE \o CRLF

\* lines 132-138
SendWriteSafe ==
  /\ pc = "send_write2"
  /\ OverrideResponse
  /\ tx' = tx \o SafeTail
  /\ pc' = "send_ret"
  /\ UNCHANGED <<caller, sendLocals, input_buffer, loopLocals, channel, chanOpen>>

\* a length that counts the CRLF too
LengthField_WithCrlf(s) == StrOfInt(Len(s) + 2)

\* line 141: str(len(State))
LengthField(s) == StrOfInt(Len(s))

\* lines 139-141
SendWriteLength ==
  /\ pc = "send_write2"
  /\ ~OverrideResponse
  /\ tx' = tx \o LengthField(State)
  /\ pc' = "send_write3"
  /\ UNCHANGED <<caller, sendLocals, input_buffer, loopLocals, channel, chanOpen>>

\* line 144: ',' + State + '\r\n'
PayloadTail(s) == <<",">> \o s \o CRLF

\* line 144
SendWritePayload ==
  /\ pc = "send_write3"
  /\ tx' = tx \o PayloadTail(State)
  /\ pc' = "send_ret"
  /\ UNCHANGED <<caller, sendLocals, input_buffer, loopLocals, channel, chanOpen>>

\* a SendRYLR that sends again instead of returning
ReturnTarget_Retry(from) == "send_write1"

\* where line 146 returns to: the handshake wait of line 157, or lines 205-206
ReturnTarget(from) == IF from = "init" THEN "handshake" ELSE "loop_rx"

\* a SendRYLR that, before returning, waits for inbound bytes and decodes one line
SendReturn_AwaitAck ==
  /\ pc = "send_ret"
  /\ rx # <<>>
  /\ LET r == ParseRYLR(rx) IN
       /\ rx' = r.rest
       /\ lastKind' = r.kind
       /\ lastRaw' = r.raw
       /\ line' = r.text
  /\ pc' = (IF caller = "init" THEN "handshake" ELSE "loop_rx")
  /\ input_buffer' = (IF caller = "loop" THEN <<>> ELSE input_buffer)
  /\ State' = <<>>
  /\ OverrideResponse' = FALSE
  /\ OTP' = <<>>
  /\ entered' = <<>>
  /\ prompted' = FALSE
  /\ tx' = <<>>
  /\ UNCHANGED <<caller, shown, redraw, diag, wire, tears, chanOpen>>

\* line 146, and for the call of line 202 the lines 205-206 and 228; the locals
\* of the call are gone, and tx starts again with the next call
SendReturn ==
  /\ pc = "send_ret"
  /\ pc' = ReturnTarget(caller)
  /\ input_buffer' = (IF caller = "loop" THEN <<>> ELSE input_buffer)
  /\ State' = <<>>
  /\ OverrideResponse' = FALSE
  /\ OTP' = <<>>
  /\ entered' = <<>>
  /\ prompted' = FALSE
  /\ tx' = <<>>
  /\ UNCHANGED <<caller, loopLocals, channel, chanOpen>>

\* a start of the loop that does not wait for the channel
HandshakeAcquired_NoWait ==
  /\ pc = "handshake"
  /\ input_buffer' = <<>>
  /\ pc' = "loop_rx"
  /\ UNCHANGED <<caller, sendLocals, loopLocals, tx, channel, chanOpen>>

\* lines 157-165: the wait ends once RYLR.in_waiting
HandshakeAcquired ==
  /\ pc = "handshake"
  /\ rx # <<>>
  /\ input_buffer' = <<>>
  /\ pc' = "loop_rx"
  /\ UNCHANGED <<caller, sendLocals, loopLocals, tx, channel, chanOpen>>

\* line 164
prompt == <<">", "SP">>

\* a redraw that shows the bare prompt
Redrawn_PromptOnly(buf) == prompt

\* line 184: print(prompt + input_buffer, end='')
Redrawn(buf) == prompt \o buf

\* lines 172-184, one turn of the while: ParseRYLR and the display of its result.
\* An exception other than KeyboardInterrupt leaves the loop uncaught.
LoopReceive ==
  /\ pc = "loop_rx"
  /\ rx # <<>>
  /\ LET r == ParseRYLR(rx) IN
       /\ rx' = r.rest
       /\ lastKind' = r.kind
       /\ lastRaw' = r.raw
       /\ line' = r.text
       /\ diag' = r.diag
       /\ IF r.kind = "Raised"
            THEN /\ pc' = "crashed"
                 /\ UNCHANGED <<shown, redraw>>
            ELSE /\ pc' = "loop_rx"
                 /\ IF Displayable(r.text)
                      THEN /\ shown' = r.text
                           /\ redraw' = Redrawn(input_buffer)
                      ELSE /\ shown' = <<>>
                           /\ redraw' = <<>>
  /\ UNCHANGED <<caller, sendLocals, input_buffer, tx, wire, tears, chanOpen>>

\* line 172 finds RYLR.in_waiting zero: on to line 189
LoopNoData ==
  /\ pc = "loop_rx"
  /\ rx = <<>>
  /\ pc' = "loop_kbd"
  /\ line' = <<>>
  /\ shown' = <<>>
  /\ redraw' = <<>>
  /\ diag' = <<>>
  /\ lastKind' = "none"
  /\ lastRaw' = <<>>
  /\ UNCHANGED <<caller, sendLocals, input_buffer, tx, channel, chanOpen>>

\* a loop that empties the line-edit buffer at the end of every tick
KbdNone_ResetsBuffer ==
  /\ pc = "loop_kbd"
  /\ pc' = "loop_rx"
  /\ input_buffer' = <<>>
  /\ UNCHANGED <<caller, sendLocals, loopLocals, tx, channel, chanOpen>>

\* line 189: msvcrt.kbhit() is false; line 228
KbdNone ==
  /\ pc = "loop_kbd"
  /\ pc' = "loop_rx"
  /\ UNCHANGED <<caller, sendLocals, input_buffer, loopLocals, tx, channel,
                 chanOpen>>

\* lines 216-218: a regular character
KbdChar(c) ==
  /\ pc = "loop_kbd"
  /\ \E w \in OperatorLines : IsPrefix(Append(input_buffer, c), w)
  /\ input_buffer' = Append(input_buffer, c)
  /\ pc' = "loop_rx"
  /\ UNCHANGED <<caller, sendLocals, loopLocals, tx, channel, chanOpen>>

\* a backspace that erases the whole line
KbdBackspace_ErasesLine ==
  /\ pc = "loop_kbd"
  /\ input_buffer' = <<>>
  /\ pc' = "loop_rx"
  /\ UNCHANGED <<caller, sendLocals, loopLocals, tx, channel, chanOpen>>

\* lines 209-213: '\b'
KbdBackspace ==
  /\ pc = "loop_kbd"
  /\ input_buffer' = (IF Len(input_buffer) > 0
                        THEN SubSeq(input_buffer, 1, Len(input_buffer) - 1)
                        ELSE input_buffer)
  /\ pc' = "loop_rx"
  /\ UNCHANGED <<caller, sendLocals, loopLocals, tx, channel, chanOpen>>

\* an Enter that submits the buffer without looking whether it is empty
KbdEnterSend_NoGuard ==
  /\ pc = "loop_kbd"
  /\ Call(input_buffer, "loop")
  /\ UNCHANGED <<input_buffer, loopLocals, channel, chanOpen>>

\* lines 197-202: '\r' with a non-empty buffer calls SendRYLR(input_buffer)
KbdEnterSend ==
  /\ pc = "loop_kbd"
  /\ input_buffer # <<>>
  /\ Call(input_buffer, "loop")
  /\ UNCHANGED <<input_buffer, loopLocals, channel, chanOpen>>

\* lines 197-206: '\r' with an empty buffer
KbdEnterEmpty ==
  /\ pc = "loop_kbd"
  /\ input_buffer = <<>>
  /\ input_buffer' = <<>>
  /\ pc' = "loop_rx"
  /\ UNCHANGED <<caller, sendLocals, loopLocals, tx, channel, chanOpen>>

\* lines 220-223: a special key, whose byte does not decode
KbdSpecial ==
  /\ pc = "loop_kbd"
  /\ pc' = "loop_rx"
  /\ UNCHANGED <<caller, sendLocals, input_buffer, loopLocals, tx, channel,
                 chanOpen>>

\* Ctrl+C inside the try: lines 230-234
InterruptCaught ==
  /\ Running
  /\ InTry
  /\ chanOpen' = FALSE
  /\ pc' = "exited"
  /\ UNCHANGED <<caller, sendLocals, input_buffer, loopLocals, tx, channel>>

\* Ctrl+C at lines 154-165, outside the try: the KeyboardInterrupt ends the
\* script and line 233 is not run
InterruptUncaught ==
  /\ Running
  /\ ~InTry
  /\ pc' = "aborted"
  /\ UNCHANGED <<caller, sendLocals, input_buffer, loopLocals, tx, channel,
                 chanOpen>>

\* the radio module emits a line once the previous one has been read
RadioEmit(l) ==
  /\ Running
  /\ wire = <<>>
  /\ rx = <<>>
  /\ wire' = l
  /\ tears' = 0
  /\ UNCHANGED <<pc, caller, sendLocals, input_buffer, loopLocals, tx, rx,
                 chanOpen>>

\* the rest of the line on the wire reaches the input buffer
RadioArriveAll ==
  /\ Running
  /\ wire # <<>>
  /\ rx' = rx \o wire
  /\ wire' = <<>>
  /\ UNCHANGED <<pc, caller, sendLocals, input_buffer, loopLocals, tx, tears,
                 chanOpen>>

\* only the first k bytes of it have arrived when the script looks next
RadioArrivePart(k) ==
  /\ Running
  /\ tears < MaxTears
  /\ k < Len(wire)
  /\ Len(rx) + k \in TearOffsets
  /\ rx' = rx \o SubSeq(wire, 1, k)
  /\ wire' = SubSeq(wire, k + 1, Len(wire))
  /\ tears' = tears + 1
  /\ UNCHANGED <<pc, caller, sendLocals, input_buffer, loopLocals, tx, chanOpen>>

\* the steps of the script that take no operator input
ScriptStep ==
  \/ SendValidate
  \/ SendGenerateOtp
  \/ SendSkipGate
  \/ SendWriteHeader
  \/ SendWriteSafe
  \/ SendWriteLength
  \/ SendWritePayload
  \/ SendReturn
  \/ HandshakeAcquired
  \/ LoopReceive
  \/ LoopNoData
  \/ KbdNone

\* the operator: typed lines, keys, Ctrl+C
OperatorStep ==
  \/ \E s \in InitialLines : InitialInput(s)
  \/ \E e \in ReenterInputs : SendReenter(e)
  \/ \E c \in KeyChars : KbdChar(c)
  \/ KbdBackspace
  \/ KbdEnterSend
  \/ KbdEnterEmpty
  \/ KbdSpecial
  \/ InterruptCaught
  \/ InterruptUncaught

\* the radio module
RadioStep ==
  \/ \E l \in RadioLines : RadioEmit(l)
  \/ RadioArriveAll
  \/ \E k \in 1..Len(wire) : RadioArrivePart(k)

Next == ScriptStep \/ OperatorStep \/ RadioStep

Spec == Init /\ [][Next]_vars

---------------------------------------------------------------------------
(* The claims *)

\* the frame of the specification: AT+SEND=0,<len>,<payload>CRLF
FrameOf(c) == ATSEND \o StrOfInt(Len(c)) \o <<",">> \o c \o CRLF

\* SendRYLR is past the validation and the OTP prompt
AfterGate == pc \in {"send_write1", "send_write2", "send_write3", "send_ret"}

\* C1: for ARM and LAUNCH the frame carries the gated name only if the text the
\* operator re-entered equals the OTP generated in this call; on any mismatch the
\* override is set and what is written is the SAFE frame, never ARM or LAUNCH.
C1_GatedNameOnlyOnExactMatch ==
  (AfterGate /\ State \in GatedStates) =>
    /\ prompted
    /\ OTP \in OtpValues
    /\ (entered # OTP) <=> OverrideResponse
    /\ (entered # OTP) =>
         /\ IsPrefix(tx, FrameOf(SAFE))
         /\ pc # "send_write3"
         /\ (pc = "send_ret" => tx = FrameOf(SAFE))
    /\ (pc = "send_ret" /\ tx = FrameOf(State)) => entered = OTP

\* ARM was asked for, 0000 re-entered against another OTP, and SAFE was sent
C1_Witness ==
  /\ pc = "send_ret"
  /\ State = ARM
  /\ entered = <<"0", "0", "0", "0">>
  /\ OTP # entered
  /\ OverrideResponse
  /\ tx = FrameOf(SAFE)

\* C2: every frame written carries SAFE, ARM, LAUNCH or CONVERT; a name that is
\* not exactly one of them is sent as SAFE with the override recorded, and no OTP
\* is generated or asked for.
C2_OnlyRecognizedPayloads ==
  /\ \E c \in ValidStates : IsPrefix(tx, FrameOf(c))
  /\ pc = "send_ret" => \E c \in ValidStates : tx = FrameOf(c)
  /\ (pc \in SendPcs \ {"send_check"} /\ State \notin ValidStates) =>
       /\ OverrideResponse
       /\ ~prompted
       /\ OTP = <<>>
       /\ pc # "send_input"
       /\ (pc = "send_ret" => tx = FrameOf(SAFE))

\* "ARM " typed in the loop went out as SAFE
C2_Witness ==
  /\ pc = "send_ret"
  /\ caller = "loop"
  /\ State = ARM \o <<"SP">>
  /\ OverrideResponse
  /\ tx = FrameOf(SAFE)

\* C3: SAFE and CONVERT are sent as they are, without override, OTP or prompt.
C3_UngatedPassThrough ==
  (pc \in SendPcs \ {"send_check"} /\ State \in ValidStates \ GatedStates) =>
    /\ ~OverrideResponse
    /\ ~prompted
    /\ OTP = <<>>
    /\ entered = <<>>
    /\ pc # "send_input"
    /\ (pc = "send_ret" => tx = FrameOf(State))

\* CONVERT typed in the loop went out as CONVERT
C3_Witness ==
  /\ pc = "send_ret"
  /\ caller = "loop"
  /\ State = CONVERT
  /\ tx = FrameOf(CONVERT)

\* C4: the writes of one SendRYLR call, concatenated, are exactly
\* AT+SEND=0,<len>,<payload>CRLF with <len> the decimal length of <payload>, for
\* the four commands and for the SAFE override.
C4_FrameShape ==
  pc = "send_ret" =>
    tx = FrameOf(IF OverrideResponse THEN SAFE ELSE State)

\* an overridden DESTROY and its complete frame
C4_Witness ==
  /\ pc = "send_ret"
  /\ State = DESTROY
  /\ OverrideResponse
  /\ tx = ATSEND \o <<"4", ",", "S", "A", "F", "E", "CR", "LF">>

\* the text ParseRYLR classified: lastRaw decoded and stripped
lastParsed == Strip(DecodeIgnore(lastRaw))

\* C5: a line starting with +RCV= gives Payload if and only if it has exactly 4
\* commas; with any other number of commas it is Malformed and nothing of it is
\* displayed.
C5_PayloadIffFourCommas ==
  (lastKind # "none" /\ IsPrefix(RCV, lastParsed)) =>
    /\ (lastKind = "Payload") <=> (Count(lastParsed, ",") = 4)
    /\ (Count(lastParsed, ",") # 4) => (lastKind = "Malformed" /\ shown = <<>>)

\* C6: ParseRYLR always returns one of Payload, AtResponse, Malformed, Empty and
\* raises nothing, so no inbound line ends the loop; a Malformed line is not
\* displayed and the loop goes on.
C6_DecodeTotal ==
  /\ pc # "crashed"
  /\ lastKind \in {"none", "Payload", "AtResponse", "Malformed", "Empty"}
  /\ lastKind \in {"Malformed", "Empty"} =>
       /\ shown = <<>>
       /\ redraw = <<>>
       /\ line = Blank
       /\ pc \in {"loop_rx", "exited"}
  /\ (lastKind = "Malformed") <=> (diag # <<>>)

\* a +RCV line with one comma was read, nothing was displayed, the loop goes on
C6_Witness ==
  /\ pc = "loop_rx"
  /\ lastRaw = RcvLine(1)
  /\ lastKind = "Malformed"
  /\ diag = RCV \o <<"0", ",", "3">>
  /\ shown = <<>>

\* the radio's answer to a send it rejects
ErrLine == <<"+", "E", "R", "R">> \o CRLF

C9_InboundServedWithoutOperator ==
  (SessionState = "Active" /\ rx # <<>>) => ~WaitsForOperator

\* C10: wherever Ctrl+C ends the script after the port was opened, the channel
\* has been closed and the session is Closed.
C10_InterruptClosesChannel ==
  pc \in {"exited", "aborted"} => (~chanOpen /\ SessionState = "Closed")


---------------------------------------------------------------------------
(* C11 *)

\* the frames SendRYLR can complete: the one of a recognized name, complete with
\* length, payload and CRLF
CompleteFrames == {FrameOf(c) : c \in ValidStates}

\* C11: a cancellation ends the session only between ticks, so once the channel
\* is closed every frame whose first bytes were written stands complete: the
\* bytes of the current send are none or a whole frame
C11_FrameCompletedBeforeClose ==
  ~chanOpen => (tx = <<>> \/ tx \in CompleteFrames)

---------------------------------------------------------------------------
(* C12 *)

\* what a step of an idle tick may do: nothing to the line-edit buffer, to the
\* SessionState, to the bytes written or to the bytes waiting to be read
IdleStepEffect ==
  /\ input_buffer' = input_buffer
  /\ SessionState' = SessionState
  /\ tx' = tx
  /\ rx' = rx

\* C12: a tick with no inbound data and no keyboard event leaves the line-edit
\* buffer and the SessionState unchanged, writes nothing and reads nothing: the
\* inbound half finds the buffer empty and decodes no line, the keyboard half
\* finds no key
C12_IdleTickChangesNothing ==
  [][/\ (pc = "loop_rx" /\ rx = <<>> /\ pc' = "loop_kbd")
          => (IdleStepEffect /\ lastKind' = "none" /\ shown' = <<>>)
     /\ KbdNone => (IdleStepEffect /\ pc' = "loop_rx" /\ lastKind' = lastKind)
    ]_vars

\* an idle tick's inbound half has passed with a command half typed
C12_Witness ==
  /\ pc = "loop_kbd"
  /\ rx = <<>>
  /\ wire = <<>>
  /\ lastKind = "none"
  /\ input_buffer = <<"A", "R">>

---------------------------------------------------------------------------
(* C13 *)

\* C13: the inbound branch never changes the line-edit buffer. Only the keyboard
\* branch, the return of a send and the start of the loop change it, so what
\* Enter submits is what was typed since the previous Enter; and after an
\* inbound line is displayed the prompt is drawn again with exactly the buffer
C13_InboundKeepsBuffer ==
  /\ []((pc = "loop_rx" /\ shown # <<>>) => redraw = prompt \o input_buffer)
  /\ [][(pc \notin {"loop_kbd", "send_ret", "handshake"})
          => input_buffer' = input_buffer]_vars
  /\ [][(pc = "loop_kbd" /\ pc' = "send_check")
          => (State' = input_buffer /\ input_buffer' = input_buffer)]_vars

\* an inbound payload was displayed while a command was half typed
C13_Witness ==
  /\ pc = "loop_rx"
  /\ lastKind = "Payload"
  /\ shown = ARM
  /\ input_buffer = <<"L", "A", "U">>
  /\ redraw = <<">", "SP", "L", "A", "U">>

---------------------------------------------------------------------------
(* C14 *)

\* C14: the SessionState only moves Handshaking -> Active -> Closed. The loop is
\* entered only after the initial command's frame has been written and the
\* channel holds inbound data, a loop command is submitted only from the loop,
\* and once the channel is closed nothing is written to it or read from it
C14_SessionOrder ==
  /\ [][SessionState' # SessionState
          => <<SessionState, SessionState'>> \in
               {<<"Handshaking", "Active">>, <<"Active", "Closed">>}]_vars
  /\ [][(pc' = "handshake" /\ pc # "handshake")
          => (pc = "send_ret" /\ caller = "init" /\ tx \in CompleteFrames)]_vars
  /\ [][(pc' \in LoopPcs /\ pc \notin LoopPcs)
          => \/ (pc = "handshake" /\ rx # <<>>)
             \/ (pc = "send_ret" /\ caller = "loop")]_vars
  /\ [][(pc' = "send_check" /\ pc # "send_check" /\ caller' = "loop")
          => pc = "loop_kbd"]_vars
  /\ [][~chanOpen => (tx' = tx /\ rx' = rx /\ ~chanOpen')]_vars

\* the loop has just started on the reply to the initial command
C14_Witness ==
  /\ pc = "loop_rx"
  /\ caller = "init"
  /\ SessionState = "Active"
  /\ rx = <<"+", "O", "K">> \o CRLF
  /\ lastKind = "none"

---------------------------------------------------------------------------
(* C15 *)

\* C15: each challenge is bound to one gated request and compared once. A send
\* starts with no challenge, the prompt is reached only by generating a new one
\* for an ARM or LAUNCH request, the operator's answer ends the prompt (a
\* mismatch goes on to the SAFE frame, never to a second prompt), and the
\* challenge does not change while the request lasts
C15_OneChallengePerRequest ==
  /\ [](pc \in {"send_check", "send_gate"} => (OTP = <<>> /\ entered = <<>>))
  /\ [][(pc' = "send_input" /\ pc # "send_input")
          => (pc = "send_gate" /\ State \in GatedStates /\ OTP' \in OtpValues)]_vars
  /\ [][(pc = "send_input" /\ <<pc, entered, OverrideResponse>>'
                                # <<pc, entered, OverrideResponse>>)
          => /\ pc' \in {"send_write1", "exited", "aborted"}
             /\ pc' = "send_write1" => OverrideResponse' = (entered' # OTP)]_vars
  /\ [][(pc \in {"send_input", "send_write1", "send_write2", "send_write3"})
          => OTP' = OTP]_vars

\* a LAUNCH request whose re-entry did not match goes on to the SAFE frame
C15_Witness ==
  /\ pc = "send_write2"
  /\ caller = "loop"
  /\ State = LAUNCH
  /\ OTP = <<"0", "0", "0", "1">>
  /\ entered = <<"0", "0", "0", "0">>
  /\ OverrideResponse

---------------------------------------------------------------------------
(* C16 *)

\* C16: on Enter a non-empty buffer is submitted to the send path exactly once
\* (the send gets the buffer as its State, writes one frame and returns to the
\* loop with the buffer emptied, overridden to SAFE or not), and on an empty
\* buffer nothing is written and the buffer stays empty
C16_EnterSubmitsOnce ==
  /\ [][(pc = "loop_kbd" /\ pc' = "send_check")
          => (input_buffer # <<>> /\ State' = input_buffer /\ tx' = <<>>)]_vars
  /\ [][KbdEnterEmpty
          => (tx' = tx /\ input_buffer' = <<>> /\ pc' = "loop_rx")]_vars
  /\ []((pc = "send_ret" /\ caller = "loop")
          => (tx \in CompleteFrames /\ State = input_buffer))
  /\ [][(pc = "send_ret" /\ caller = "loop" /\ pc' # pc)
          => \/ pc' = "exited"
             \/ (pc' = "loop_rx" /\ input_buffer' = <<>> /\ tx' = <<>>)]_vars

\* a submitted line that is no command has been sent as SAFE and is about to
\* be cleared
C16_Witness ==
  /\ pc = "send_ret"
  /\ caller = "loop"
  /\ input_buffer = <<"a", "r", "m">>
  /\ OverrideResponse
  /\ tx = FrameOf(SAFE)

---------------------------------------------------------------------------
(* C17 *)

\* the buffer b without its last character
Front(b) == SubSeq(b, 1, Len(b) - 1)

\* C17: a literal character appends exactly that character; a backspace removes
\* the last character of a non-empty buffer and leaves an empty one alone;
\* neither writes to the channel. So a keyboard step that stays in the loop
\* changes the buffer by at most one character at its end
C17_LineEditing ==
  /\ [][\A c \in KeyChars :
          KbdChar(c) => (input_buffer' = input_buffer \o <<c>> /\ tx' = tx)]_vars
  /\ [][KbdBackspace
          => /\ input_buffer # <<>> => input_buffer' = Front(input_buffer)
             /\ input_buffer = <<>> => input_buffer' = <<>>
             /\ tx' = tx]_vars
  /\ [][(pc = "loop_kbd" /\ pc' = "loop_rx")
          => /\ \/ input_buffer' = input_buffer
                \/ input_buffer # <<>> /\ input_buffer' = Front(input_buffer)
                \/ \E c \in KeyChars : input_buffer' = input_buffer \o <<c>>
             /\ tx' = tx
             /\ rx' = rx]_vars

\* a command is half typed and nothing has been written
C17_Witness ==
  /\ pc = "loop_rx"
  /\ caller = "init"
  /\ input_buffer = <<"L", "A", "U", "N">>
  /\ tx = <<>>
  /\ lastKind = "none"

---------------------------------------------------------------------------
(* C18 *)

\* the bytes last read, without the invalid ones
lastClean == SelectSeq(lastRaw, ValidByte)

\* the bytes last read held an invalid byte
lastCorrupted == \E i \in 1..Len(lastRaw) : ~ValidByte(lastRaw[i])

\* C18 as stated: an invalid byte is replaced by a marker, not removed, so what
\* ParseRYLR returns for a corrupted line carries the marker and differs from
\* what it returns for the same line uncorrupted
C18_CorruptionLeavesMarker ==
  (lastKind # "none" /\ lastCorrupted)
    => /\ \E i \in 1..Len(line) : line[i] = Marker
       /\ line # Classify(lastClean).text

\* C18, amended: invalid bytes are removed without a trace: ParseRYLR returns
\* for a line with invalid bytes exactly what it returns for the same line
\* without them, and no marker appears in it
C18_InvalidBytesDropped ==
  lastKind # "none"
    => /\ lastKind = Classify(lastClean).kind
       /\ line = Classify(lastClean).text
       /\ \A i \in 1..Len(line) : line[i] \notin {Marker, "XFF"}

\* a payload that arrived with an invalid byte in it is displayed as ARM
C18_Witness ==
  /\ pc = "loop_rx"
  /\ lastRaw = CorruptRcvLine
  /\ lastKind = "Payload"
  /\ shown = ARM

---------------------------------------------------------------------------
(* C19 *)

\* SendRYLR has not yet decided what to send: lines 94-125
BeforeDecision == pc \in {"send_check", "send_gate", "send_input"}

\* C19: within one send no byte of the frame is written until the gate decision
\* is final: nothing has been written while the name is checked and while the
\* OTP prompt is pending, a step taken from there (a cancellation at the prompt
\* too) writes nothing, and the bytes written for ARM or LAUNCH come after the
\* re-entry was compared
C19_NoByteBeforeDecision ==
  /\ [](BeforeDecision => tx = <<>>)
  /\ [][BeforeDecision => tx' = <<>>]_vars
  /\ [][(tx' # tx /\ tx' # <<>>)
          => /\ pc \in {"send_write1", "send_write2", "send_write3"}
             /\ State \in GatedStates
                  => (prompted /\ OverrideResponse = (entered # OTP))]_vars

\* the session was cancelled at the OTP prompt of a LAUNCH typed in the loop
C19_Witness ==
  /\ pc = "exited"
  /\ State = LAUNCH
  /\ prompted
  /\ entered = <<>>
  /\ ~OverrideResponse
  /\ tx = <<>>

---------------------------------------------------------------------------
(* C20 *)

\* C20: every text returned and displayed as a received payload is field 2 of
\* one complete newline-terminated +RCV= line the radio emitted; a fragment
\* the read timeout cut off, or the rest of such a line, is never classified
\* as Payload
C20_PayloadFromCompleteLine ==
  lastKind = "Payload"
    => \E l \in RadioLines :
         /\ lastRaw = l
         /\ IsPrefix(RCV, l)
         /\ line = RcvField(Strip(DecodeIgnore(l))).data
=============================================================================
